---- MODULE Spec2Model ----
\* Browser-resource orchestration of the website audit API:
\* BrowserService (shared browser, slot limiter, page sessions),
\* retryWithBackoff, and the WebsiteAuditor pipeline on top of them.
EXTENDS Integers, Sequences, FiniteSets, TLC

----------------------------------------------------------------------------
\* Bounds of the model

NumCalls == 3          \* calls that can be in flight at the same time
MaxEnvCapacity == 1    \* largest MAX_CONCURRENT_PAGES value tried
MaxRetries == 3        \* largest maxRetries handed to retryWithBackoff
MaxFailures == 4       \* largest number of failures before the operation succeeds
NumAudits == 1         \* auditor runs in flight when steps may fail
MaxPageHeight == 170   \* tallest page measured by screenshotUrl

Calls == 1..NumCalls

\* MAX_CONCURRENT_PAGES as found in the environment: <<>> when unset (Number
\* gives NaN), <<n>> when it parses to the number n.
EnvCapacities == {<< >>} \cup {<<n>> : n \in -1..MaxEnvCapacity}

\* Names for browser processes. A call from outside launches at most one
\* browser, an auditor run at most four (three loads and a screenshot), so a
\* free name always exists.
BrowserIds == 1..(4 * NumCalls)

SlotKinds == {"loadPage", "screenshotUrl"}
PoolKinds == {"initialize", "getVersion", "loadPage"}

\* retryWithBackoff: the maxRetries values tried, and Math.random() * 1000 at
\* its two ends
RetryCounts == -1..MaxRetries
Jitters == {0, 999}

\* retryWithBackoff: default baseDelay
DefaultBaseDelay == 1000

\* retryWithBackoff: the baseDelay values tried
BaseDelays == {DefaultBaseDelay \div 2, DefaultBaseDelay}

\* loadPageWithRetry: the maxRetries it hands to retryWithBackoff
LoadMaxRetries == 2

\* screenshotUrl: OVERLAP, and the MAX_SINGLE_IMAGE_HEIGHT used when
\* opts.maxHeight is not given
OVERLAP == 80
DefaultMaxSingleHeight == 15000

\* screenshotUrl: the page heights measured, and opts.maxHeight as given:
\* <<>> when absent, <<m>> when it is the number m
PageHeights == 0..MaxPageHeight
MaxHeightOptions == {<< >>, <<-1>>, <<0>>, <<1>>, <<100>>}

VARIABLES
  maxConcurrentPages,     \* BrowserService.maxConcurrentPages
  browser,                \* BrowserService.browser: 0 is null, else the browser's name
  isInitialized,          \* BrowserService.isInitialized
  currentSlots,           \* BrowserService.currentSlots
  queue,                  \* BrowserService.queue: the queued resolvers, by call
  cleanupIntervalHandle,  \* BrowserService.cleanupIntervalHandle # null
  timers,                 \* number of setInterval timers created so far
  alive,                  \* browsers whose process is still connected
  pc,                     \* where each call stands ("idle": not issued, "done": over)
  kind,                   \* which method each call runs
  hasSlot,                \* the call was counted into currentSlots and has not released
  page,                   \* the call's Page: "none", "open", "closed"
  onBrowser,              \* the browser the call opened its page on
  result,                 \* the value the call is about to return: "none", "ok", "fail"
  arrivals,               \* the waiting calls in the order they entered acquireSlot
  leaked,                 \* slots still counted whose call is over
  leakedBy,               \* the methods whose calls ended without releasing their slot
  audit,                  \* the auditWebsite run that drives each call, if any
  retry,                  \* a run of retryWithBackoff on its own
  capture,                \* the try block of a screenshotUrl call on its own
  cleanup,                \* the screenshot directory, the clock and the cleanup timer
  req,                    \* one request, from its route to its answer
  pages                   \* the pages opened by runs of loadPage and screenshotUrl

vars == <<maxConcurrentPages, browser, isInitialized, currentSlots, queue,
          cleanupIntervalHandle, timers, alive, pc, kind, hasSlot, page,
          onBrowser, result, arrivals, leaked, leakedBy, audit, retry, capture,
          cleanup, req, pages>>

poolVars == <<browser, isInitialized, cleanupIntervalHandle, timers, alive>>
limiterVars == <<currentSlots, queue, hasSlot, arrivals, leaked, leakedBy>>
callVars == <<pc, kind, page, onBrowser, result>>
sideVars == <<cleanup, req, pages>>
outerVars == <<maxConcurrentPages, audit, retry, capture, sideVars>>

----------------------------------------------------------------------------
\* BrowserService: pure pieces

\* Number(process.env.MAX_CONCURRENT_PAGES) || 2
CapacityOf(e) == IF e = << >> \/ e[1] = 0 THEN 2 ELSE e[1]

\* isReady()
isReady == isInitialized /\ browser # 0

initializeReturnsEarlyInverted == isInitialized /\ browser = 0

\* initialize(): the early return
initializeReturnsEarly == isInitialized /\ browser # 0

timersAfterLaunchUnguarded(handle, n) == n + 1

\* initialize(): if (!this.cleanupIntervalHandle) setInterval(...)
timersAfterLaunch(handle, n) == IF handle THEN n ELSE n + 1

acquireSlotFreeOffByOne(slots, cap) == slots <= cap

\* acquireSlot: the test that grants a slot at once
acquireSlotFree(slots, cap) == slots < cap

\* releaseSlot: Math.max(0, currentSlots - 1)
slotsAfterRelease(slots) == IF slots - 1 > 0 THEN slots - 1 ELSE 0

nextQueuedPop(q) == IF q = << >> THEN 0 ELSE q[Len(q)]

\* releaseSlot: queue.shift(), 0 when the queue is empty
nextQueued(q) == IF q = << >> THEN 0 ELSE Head(q)

RemoveCall(q, n) == SelectSeq(q, LAMBDA x : x # n)

releaseSlotWakesNobody(slots, q) ==
  [slots |-> slotsAfterRelease(slots), queue |-> q, next |-> 0]

\* releaseSlot(): the count after the decrement and after the resolver of the
\* next queued call, if any, has run; the queue left; the call resumed
releaseSlot(slots, q) ==
  LET n == nextQueued(q) IN
  [slots |-> slotsAfterRelease(slots) + (IF n # 0 THEN 1 ELSE 0),
   queue |-> RemoveCall(q, n),
   next  |-> n]

\* A continuation that runs as a microtask is pending: the caller of an
\* acquireSlot whose promise was resolved at once ("granted") or by the queued
\* resolver ("resumed"), and the auditWebsite run whose loadPage or
\* screenshotUrl has settled ("retOk": resolved with a success result,
\* "retFail": resolved with a failure result, "threw": rejected). No I/O
\* completion or event is delivered before it ran.
MicroPending ==
  \E c \in Calls : pc[c] \in {"granted", "resumed", "retOk", "retFail", "threw"}

\* Calls not yet issued are interchangeable: the lowest-numbered one is issued
InOrder(c) == \A d \in Calls : d < c => pc[d] # "idle"

\* The smallest browser name that no live process and no call in flight uses
FreshBrowser ==
  CHOOSE b \in BrowserIds :
    /\ b \notin alive \cup {onBrowser[c] : c \in Calls}
    /\ \A a \in BrowserIds : a < b => a \in alive \cup {onBrowser[c] : c \in Calls}

\* The async function's promise as settled by what the body produced
Settled(res) ==
  IF res = "ok" THEN "retOk" ELSE IF res = "fail" THEN "retFail" ELSE "threw"

\* The error of an auditor result: its code, the step named in its details,
\* and whether its message is another error's message behind a prefix
NoError == [code |-> "none", step |-> "none", wrapped |-> FALSE]

\* validateUrl failed: its error is handed on as it is, with no details
validationError == [code |-> "VALIDATION", step |-> "none", wrapped |-> FALSE]

\* auditWebsite: the error of a loadPageWithRetry result that is not a success
pageLoadingError == [code |-> "PAGE_LOAD_FAILED", step |-> "page_loading", wrapped |-> FALSE]

auditCatchErrorAsLoadError == pageLoadingError

\* auditWebsite: the error built by its catch
auditCatchError == [code |-> "AUDIT_FAILED", step |-> "unknown", wrapped |-> TRUE]

\* No auditor run drives a call. op: the auditor method; attempt: the loop
\* counter of retryWithBackoff; loads: loadPage invocations so far; shot:
\* options.includeScreenshot; shots: the screenshot field of the result
NoAudit == [st |-> "none", op |-> "none", attempt |-> 0, loads |-> 0, shot |-> FALSE,
            error |-> NoError, shots |-> "none"]

\* Call c is over. rel: it runs releaseSlot() on its way out. out: how its
\* promise settles, which the auditWebsite run that awaits it, if any, sees.
Finish(c, rel, out) ==
  LET r == IF rel THEN releaseSlot(currentSlots, queue)
                  ELSE [slots |-> currentSlots, queue |-> queue, next |-> 0]
      leak == hasSlot[c] /\ ~rel
  IN
  /\ currentSlots' = r.slots
  /\ queue' = r.queue
  /\ arrivals' = RemoveCall(arrivals, r.next)
  /\ pc' = [d \in Calls |->
              IF d = c THEN (IF audit[c].st = "none" THEN "done" ELSE out)
              ELSE IF d = r.next THEN "resumed" ELSE pc[d]]
  /\ hasSlot' = [d \in Calls |-> IF d = c THEN FALSE ELSE IF d = r.next THEN TRUE ELSE hasSlot[d]]
  /\ leaked' = IF leak THEN leaked + 1 ELSE leaked
  /\ leakedBy' = IF leak THEN leakedBy \cup {kind[c]} ELSE leakedBy
  /\ kind' = [kind EXCEPT ![c] = "none"]
  /\ page' = [page EXCEPT ![c] = "none"]
  /\ onBrowser' = [onBrowser EXCEPT ![c] = 0]
  /\ result' = [result EXCEPT ![c] = "none"]

----------------------------------------------------------------------------
\* retryWithBackoff: pure pieces

RECURSIVE Pow2(_)
Pow2(n) == IF n <= 0 THEN 1 ELSE 2 * Pow2(n - 1)

\* for (...; attempt <= maxRetries; ...)
retryLoopContinues(attempt, maxRetries) == attempt <= maxRetries

retryExhaustedOneEarly(attempt, maxRetries) == attempt + 1 = maxRetries

\* if (attempt === maxRetries) throw lastError
retryExhausted(attempt, maxRetries) == attempt = maxRetries

retryDelayLinear(baseDelay, attempt, jitter) == baseDelay * (attempt + 1) + jitter

\* baseDelay * Math.pow(2, attempt) + Math.random() * 1000
retryDelay(baseDelay, attempt, jitter) == baseDelay * Pow2(attempt) + jitter

\* No run of retryWithBackoff has begun. k: the failures the operation makes
\* before it succeeds; attempts: invocations of the operation so far;
\* lastError: the attempt whose error lastError holds (0: unassigned);
\* wrapped: that error was not an Error and was replaced by 'Unknown error'.
RetryIdle == [st |-> "idle", maxRetries |-> 0, k |-> 0, baseDelay |-> 0, attempt |-> 0,
              attempts |-> 0, lastError |-> 0, wrapped |-> FALSE, delay |-> 0]

\* loadPageWithRetry: if (!result.success) throw; a loadPage that rejected
\* fails the attempt as well
loadSucceeded(out) == out = "retOk"

----------------------------------------------------------------------------
\* BrowserService.screenshotUrl: the captures of the try block

Min2(a, b) == IF a <= b THEN a ELSE b
Max2(a, b) == IF a >= b THEN a ELSE b

\* opts.maxHeight ?? 15000
maxSingleImageHeight(opt) == IF opt = << >> THEN DefaultMaxSingleHeight ELSE opt[1]

\* Math.ceil(dims.height / 2), the height being a whole number >= 0
ceilHalf(h) == (h + 1) \div 2

topHeightNoOverlap(h) == Min2(ceilHalf(h), h)

\* topHeight, bottomStart, bottomHeight of the split branch
topHeight(h) == Min2(ceilHalf(h) + OVERLAP, h)

bottomStartLeavesGap(h) == Min2(ceilHalf(h) + OVERLAP, h) + 1

\* const bottomStart = Math.max(half - OVERLAP, 0), and bottomHeight
bottomStart(h) == Max2(ceilHalf(h) - OVERLAP, 0)
bottomHeight(h) == h - bottomStart(h)

capturePartsAlwaysSingle(h, m) == << [suffix |-> "full", y |-> 0, height |-> h] >>

\* the captures to make of a page h tall with MAX_SINGLE_IMAGE_HEIGHT m: the
\* full page, or part1 and part2
captureParts(h, m) ==
  IF h <= m
    THEN << [suffix |-> "full", y |-> 0, height |-> h] >>
    ELSE << [suffix |-> "part1", y |-> 0, height |-> topHeight(h)],
            [suffix |-> "part2", y |-> bottomStart(h), height |-> bottomHeight(h)] >>

\* the clip handed to page.screenshot for a part (Math.floor leaves whole
\* numbers as they are)
clipOf(part) == [y |-> Max2(0, part.y), height |-> Max2(1, part.height)]

\* No capture has begun. parts: the captures to make; next: the one in hand;
\* clips: the clips captured so far; results: the local results array, by
\* filename suffix; returned: the array returned; storage: the files written
CaptureIdle == [st |-> "idle", H |-> 0, M |-> 0, parts |-> << >>, next |-> 1,
                clips |-> << >>, results |-> << >>, returned |-> << >>, storage |-> {}]

captureErrorKeepsEarlierParts(cap) ==
  IF cap.results = << >> THEN [cap EXCEPT !.st = "threw"]
                         ELSE [cap EXCEPT !.st = "returned", !.returned = cap.results]

\* catch (err) { console.error(...); throw err; } around each capture: the
\* error leaves screenshotUrl, nothing is returned, nothing is deleted
captureError(cap) == [cap EXCEPT !.st = "threw"]

\* Cleanup of stored screenshots: pure pieces (times in milliseconds)

MaxFiles == 2
MaxSweeps == 7

DefaultScreenshotTTL == 1800000
MinCleanupInterval == 60000

\* SCREENSHOT_TTL_MS: unset, or a number
TTLEnvs == {<< >>, <<0>>, <<1>>, <<60000>>, <<90000>>}

\* Number(process.env.SCREENSHOT_TTL_MS) || 30 * 60 * 1000
screenshotTTL(env) ==
  IF env = << >> \/ env[1] = 0 THEN DefaultScreenshotTTL ELSE env[1]

\* Math.max(60 * 1000, Math.floor(this.screenshotTTL / 6))
cleanupInterval(ttl) == Max2(MinCleanupInterval, ttl \div 6)

isExpiredInclusive(mtimeMs, now, ttl) == mtimeMs <= now - ttl

\* const threshold = now - this.screenshotTTL; if (st.mtimeMs < threshold)
isExpired(mtimeMs, now, ttl) == mtimeMs < now - ttl

nextSweepAfterSkipsOne(now, interval) == now + 2 * interval

\* setInterval: the callback runs again one interval after it ran
nextSweepAfter(now, interval) == now + interval

\* The files left by one run of cleanupScreenshots at time now. dirOk: stat
\* and readdir of the directory succeeded (otherwise the run returns, or
\* its outer catch logs, before any file is looked at); errs: the files whose
\* stat or unlink throws, which the catch inside the loop logs.  failed
\* remembers that a due deletion of the file did not happen.
sweepFiles(files, now, ttl, errs, dirOk) ==
  { [f EXCEPT !.failed = TRUE] :
      f \in {g \in files : isExpired(g.mtime, now, ttl) /\ (~dirOk \/ g.name \in errs)} }
  \cup {f \in files : ~isExpired(f.mtime, now, ttl)}

\* How a run of cleanupScreenshots ends: it returns after the loop, or its
\* outer catch logs 'unexpected error' and it returns; it never rejects
sweepOutcome(dirOk) == IF dirOk THEN "swept" ELSE "logged"

\* No timer yet.  now counts from the creation of the timer; files: the
\* screenshot directory, each file with its name and last-modified time
CleanupIdle == [st |-> "off", ttl |-> 0, interval |-> 0, now |-> 0, nextSweep |-> 0,
                sweeps |-> 0, files |-> {}, written |-> 0, outcome |-> "none"]

\* One request through the HTTP routes and the auditor: pure pieces

Routes == {"/audit", "/audit/quick", "/audit/check"}
Methods == {"auditWebsite", "quickAudit", "checkUrlAccessibility"}
UrlCases == {"missing", "invalid", "valid"}

\* the messages of the exceptions thrown inside the browser and the parser
ExceptionTexts == {"net::ERR_CONNECTION_REFUSED", "Target closed"}

StatusCodes == {200, 404}
FinalUrls == {"requested", "redirected"}
HrTimes == {0, 5, 12}

DefaultTimeout == 30000
QuickTimeout == 10000
AccessibilityTimeout == 5000

\* options.timeout: not supplied, or a number
TimeoutOptions == {<< >>, <<0>>, <<2000>>}

ZeroMetrics == [domContentLoaded |-> 0, loadComplete |-> 0, firstPaint |-> 0,
                firstContentfulPaint |-> 0]

\* what the navigation entry of the page reads: nothing, a load, a
\* DOMContentLoaded that has not ended yet (0 - fetchStart)
PerfReadings ==
  {ZeroMetrics,
   [domContentLoaded |-> 7, loadComplete |-> 9, firstPaint |-> 3, firstContentfulPaint |-> 4],
   [domContentLoaded |-> -20, loadComplete |-> -20, firstPaint |-> 0,
    firstContentfulPaint |-> 0]}

\* What the browser does during one call of loadPage. enter: initialize and
\* acquireSlot; newPage: newPage and configurePage; response: page.goto
\* resolves with a response, resolves with null, or rejects; settleErr:
\* something throws inside waitForDynamicContent; contentOk: page.content;
\* perfErr: page.evaluate rejects inside getPerformanceMetrics; perf: the
\* metrics it reads otherwise; hrMs: the time measured around goto; text:
\* the message of whatever was thrown to loadPage.  Here: nothing throws
QuietLoad ==
  [enter |-> "ok", newPage |-> TRUE, response |-> "ok", status |-> 200,
   finalUrl |-> "requested", settleErr |-> FALSE, contentOk |-> TRUE, perfErr |-> FALSE,
   perf |-> ZeroMetrics, hrMs |-> 0, text |-> "none"]

\* the behaviours of the browser, each up to the point where loadPage stops
\* looking
LoadInputs ==
  {[QuietLoad EXCEPT !.enter = "throw", !.text = t] : t \in ExceptionTexts}
  \cup {[QuietLoad EXCEPT !.newPage = FALSE, !.text = t] : t \in ExceptionTexts}
  \cup {[QuietLoad EXCEPT !.response = "throw", !.text = t] : t \in ExceptionTexts}
  \cup {[QuietLoad EXCEPT !.response = "null"]}
  \cup {[QuietLoad EXCEPT !.settleErr = e, !.contentOk = FALSE, !.text = t] :
          e \in BOOLEAN, t \in ExceptionTexts}
  \cup {[QuietLoad EXCEPT !.settleErr = e, !.perfErr = p, !.perf = m, !.hrMs = h,
                          !.status = s, !.finalUrl = u] :
          e \in BOOLEAN, p \in BOOLEAN, m \in PerfReadings, h \in HrTimes,
          s \in StatusCodes, u \in FinalUrls}

NoInput == [enter |-> "none"]

\* the route handled by each method of the auditor
methodOf(route) ==
  CASE route = "/audit" -> "auditWebsite"
    [] route = "/audit/quick" -> "quickAudit"
    [] route = "/audit/check" -> "checkUrlAccessibility"

\* options.timeout || d
timeoutOr(opt, d) == IF opt = << >> \/ opt[1] = 0 THEN d ELSE opt[1]

navigationTimeoutAlwaysDefault(op, opt) == timeoutOr(opt, DefaultTimeout)

\* The timeout page.goto gets. auditWebsite hands its options to loadPage;
\* quickAudit sets timeout: options.timeout || 10000 first;
\* checkUrlAccessibility passes { timeout: 5000 }
navigationTimeout(op, opt) ==
  CASE op = "auditWebsite" -> timeoutOr(opt, DefaultTimeout)
    [] op = "quickAudit" -> timeoutOr(<<timeoutOr(opt, QuickTimeout)>>, DefaultTimeout)
    [] op = "checkUrlAccessibility" -> timeoutOr(<<AccessibilityTimeout>>, DefaultTimeout)

\* an ApiError: its code and its message, the message as the pieces of text
\* it is put together from
apiError(code, message) == [error |-> code, message |-> message]

NoApiError == apiError("none", << >>)

\* validateUrl(url): the error of a URL that is missing or not acceptable
validateUrlError(urlCase) ==
  IF urlCase = "missing"
    THEN apiError("MISSING_URL", <<"URL parameter is required">>)
    ELSE apiError("INVALID_URL_FORMAT",
                  <<"Invalid URL format. Please provide a valid HTTP or HTTPS URL.">>)

\* the TypeError of response!.headers() on a null response
NullHeadersText == "Cannot read properties of null (reading 'headers')"

\* loadPage, catch: the failed PageLoadResult, carrying the requested URL
loadFailure(url, timeout, text) ==
  [success |-> FALSE, threw |-> FALSE, url |-> url, statusCode |-> << >>,
   loadTimeInMs |-> << >>, performanceMetrics |-> << >>, headers |-> << >>,
   error |-> apiError("PAGE_LOAD_FAILED", <<"Failed to load page: ", text>>),
   timeout |-> timeout]

\* loadPage rejects: initialize or acquireSlot threw before the try block
loadRejected(url, text) ==
  [success |-> FALSE, threw |-> TRUE, url |-> url, statusCode |-> << >>,
   loadTimeInMs |-> << >>, performanceMetrics |-> << >>, headers |-> << >>,
   error |-> apiError("thrown", <<text>>), timeout |-> 0]

NoLoad == [success |-> FALSE, threw |-> FALSE, url |-> "none", statusCode |-> << >>,
           loadTimeInMs |-> << >>, performanceMetrics |-> << >>, headers |-> << >>,
           error |-> NoApiError, timeout |-> 0]

hasResponseUnlessThrown(response) == response # "throw"

\* response!.headers() and if (!response) throw: only a response object
\* lets loadPage go on
hasResponse(response) == response = "ok"

waitForDynamicContentRethrows(in) == ~in.settleErr

\* waitForDynamicContent: its catch logs, so loadPage always goes on
waitForDynamicContentReturns(in) == TRUE

\* getPerformanceMetrics: the metrics read, or zeros from its catch
getPerformanceMetrics(in) == IF in.perfErr THEN ZeroMetrics ELSE in.perf

\* loadPage(url, { timeout }) under the behaviour in of the browser
loadPage(url, timeout, in) ==
  IF in.enter = "throw" THEN loadRejected(url, in.text)
  ELSE IF ~in.newPage \/ in.response = "throw" THEN loadFailure(url, timeout, in.text)
  ELSE IF ~hasResponse(in.response) THEN loadFailure(url, timeout, NullHeadersText)
  ELSE IF ~waitForDynamicContentReturns(in) \/ ~in.contentOk
    THEN loadFailure(url, timeout, in.text)
  ELSE [success |-> TRUE, threw |-> FALSE, url |-> in.finalUrl, statusCode |-> <<in.status>>,
        loadTimeInMs |-> <<Max2(in.hrMs, getPerformanceMetrics(in).domContentLoaded)>>,
        performanceMetrics |-> <<getPerformanceMetrics(in)>>, headers |-> <<"headers">>,
        error |-> NoApiError, timeout |-> timeout]

\* loadPageWithRetry: the message of the error an attempt ends with, the
\* message of the failed result or of what loadPage threw
attemptErrorMessage(load) == load.error.message

NoData == [url |-> "none"]

auditDataRequestedUrl(load, screenshot, screenshotError) ==
  [url |-> "requested", statusCode |-> load.statusCode[1],
   performance |-> [loadTimeInMs |-> load.loadTimeInMs[1]],
   response |-> [headers |-> load.headers[1], loadTimeInMs |-> load.loadTimeInMs[1]],
   screenshot |-> screenshot, screenshotError |-> screenshotError]

\* auditWebsite: the data of a successful audit, less the parsed content.
\* screenshot: "absent", or the field's value "shots" or "empty"
auditData(load, screenshot, screenshotError) ==
  [url |-> load.url, statusCode |-> load.statusCode[1],
   performance |-> [loadTimeInMs |-> load.loadTimeInMs[1]],
   response |-> [headers |-> load.headers[1], loadTimeInMs |-> load.loadTimeInMs[1]],
   screenshot |-> screenshot, screenshotError |-> screenshotError]

\* quickAudit: the data of a successful quick audit, less the parsed content
quickData(load) ==
  [url |-> load.url, statusCode |-> load.statusCode[1], loadTimeInMs |-> load.loadTimeInMs[1]]

\* a result of auditWebsite or quickAudit
auditSuccess(data) == [success |-> TRUE, data |-> data, error |-> NoApiError]

auditFailure(error) == [success |-> FALSE, data |-> NoData, error |-> error]

\* checkUrlAccessibility: its result after the load
accessibilityResult(load) ==
  [success |-> load.success,
   data |-> [accessible |-> load.success, finalUrl |-> load.url,
             statusCode |-> load.statusCode, loadTimeInMs |-> load.loadTimeInMs],
   error |-> IF load.success THEN NoApiError ELSE apiError("none", load.error.message)]

\* checkUrlAccessibility: its result for a URL that fails validation
accessibilityInvalid(urlCase) ==
  [success |-> FALSE, data |-> [accessible |-> FALSE, finalUrl |-> "none",
                                statusCode |-> << >>, loadTimeInMs |-> << >>],
   error |-> apiError("none", validateUrlError(urlCase).message)]

NoResponse == [status |-> 0, body |-> NoData]

\* the routes' answer to the result of the auditor: /audit and /audit/quick
\* answer a failure with 500 and its code and message, a success with the
\* data; /audit/check answers with the result whatever it is
httpResponse(route, res) ==
  IF route = "/audit/check" THEN [status |-> 200, body |-> res]
  ELSE IF res.success THEN [status |-> 200, body |-> res.data]
                      ELSE [status |-> 500, body |-> res.error]

\* the routes' answer before the auditor is called: 400 for a missing url
\* parameter, and on /audit and /audit/quick for one validateUrl rejects
routeRejects(route, urlCase) ==
  urlCase = "missing" \/ (route # "/audit/check" /\ urlCase = "invalid")

\* No request yet. via: "http" or "direct" (the auditor called by other
\* code); timeout: the timeout handed to page.goto, 0 before any loadPage;
\* attempt: the loop counter of retryWithBackoff; lastIn: what the browser
\* did in the last loadPage; load: its result; parsed: the HTML parser was
\* invoked; parseOk: and did not throw
NoRequest == [st |-> "idle", via |-> "none", route |-> "none", op |-> "none",
              urlCase |-> "none", shot |-> FALSE, opt |-> << >>, timeout |-> 0, attempt |-> 0,
              lastIn |-> NoInput, load |-> NoLoad, parsed |-> FALSE, parseOk |-> FALSE,
              result |-> auditFailure(NoApiError), http |-> NoResponse]

\* The pages of loadPage and screenshotUrl: pure pieces

MaxRuns == 3

\* a run is one invocation of loadPage or screenshotUrl: a request's, or one
\* attempt of a retried load
Runs == 1..MaxRuns
PageIds == 1..MaxRuns

freshPageHandsOutTheFirst(opened) == 1

\* browser.newPage() resolves with a page that did not exist before
freshPage(opened) == opened + 1

\* finally of loadPage: if (page) page.close(); finally of screenshotUrl:
\* page.close(), the page being opened before the try block
closesPage(pg) == pg # 0

\* how the run settles after its finally block: page.close() rejecting is
\* caught in loadPage and escapes from screenshotUrl
settledAfterClose(k, res, closeOk) ==
  IF k = "loadPage" \/ closeOk THEN Settled(res) ELSE "threw"

NoRun == [st |-> "idle", kind |-> "none", page |-> 0, result |-> "none", out |-> "none"]

\* No run yet. opened: the pages created so far; log: for each page the
\* runs whose newPage returned it, the runs that used it, and the number of
\* times close() was called on it
NoPages == [opened |-> 0,
            log |-> [p \in PageIds |-> [owners |-> {}, users |-> {}, closes |-> 0]],
            runs |-> [r \in Runs |-> NoRun]]

----------------------------------------------------------------------------
\* Initial state: a freshly constructed BrowserService, no call issued

Init ==
  /\ \E e \in EnvCapacities : maxConcurrentPages = CapacityOf(e)
  /\ browser = 0
  /\ isInitialized = FALSE
  /\ currentSlots = 0
  /\ queue = << >>
  /\ cleanupIntervalHandle = FALSE
  /\ timers = 0
  /\ alive = {}
  /\ pc = [c \in Calls |-> "idle"]
  /\ kind = [c \in Calls |-> "none"]
  /\ hasSlot = [c \in Calls |-> FALSE]
  /\ page = [c \in Calls |-> "none"]
  /\ onBrowser = [c \in Calls |-> 0]
  /\ result = [c \in Calls |-> "none"]
  /\ arrivals = << >>
  /\ leaked = 0
  /\ leakedBy = {}
  /\ audit = [c \in Calls |-> NoAudit]
  /\ retry = RetryIdle
  /\ capture = CaptureIdle
  /\ cleanup = CleanupIdle
  /\ req = NoRequest
  /\ pages = NoPages

----------------------------------------------------------------------------
\* BrowserService: the calls

\* acquireSlot() as called by c: the slot is taken at once, or the resolver is
\* queued
AcquireSlot(c) ==
  IF acquireSlotFree(currentSlots, maxConcurrentPages)
    THEN /\ currentSlots' = currentSlots + 1
         /\ hasSlot' = [hasSlot EXCEPT ![c] = TRUE]
         /\ pc' = [pc EXCEPT ![c] = "granted"]
         /\ UNCHANGED <<queue, arrivals>>
    ELSE /\ queue' = Append(queue, c)
         /\ arrivals' = Append(arrivals, c)
         /\ pc' = [pc EXCEPT ![c] = "waiting"]
         /\ UNCHANGED <<currentSlots, hasSlot>>

\* What a call of kind k does when its initialize() has returned, up to its
\* next await: loadPage and screenshotUrl enter acquireSlot, getVersion asks
\* the browser for its version, initialize is over.
AfterInitialize(c, k) ==
  IF k \in SlotKinds
    THEN /\ AcquireSlot(c)
         /\ kind' = [kind EXCEPT ![c] = k]
         /\ UNCHANGED <<leaked, leakedBy, page, onBrowser, result>>
    ELSE IF k = "getVersion"
      THEN /\ pc' = [pc EXCEPT ![c] = "version"]
           /\ kind' = [kind EXCEPT ![c] = k]
           /\ UNCHANGED <<limiterVars, page, onBrowser, result>>
      ELSE /\ pc' = [pc EXCEPT ![c] = "done"]
           /\ kind' = [kind EXCEPT ![c] = "none"]
           /\ UNCHANGED <<limiterVars, page, onBrowser, result>>

\* isReady(): synchronous, answers from the two fields
IsReadyCall(c) ==
  /\ pc[c] = "idle"
  /\ InOrder(c)
  /\ pc' = [pc EXCEPT ![c] = "done"]
  /\ UNCHANGED <<outerVars, poolVars, limiterVars, kind, page, onBrowser, result>>

\* loadPage / screenshotUrl / getVersion / initialize are entered: each runs
\* initialize() first, which returns at once when the pool is ready and
\* launches otherwise
EnterCall(c, k) ==
  IF initializeReturnsEarly
    THEN AfterInitialize(c, k)
    ELSE /\ pc' = [pc EXCEPT ![c] = "launching"]
         /\ kind' = [kind EXCEPT ![c] = k]
         /\ UNCHANGED <<limiterVars, page, onBrowser, result>>

\* a call made from outside the auditor
Call(c, k) ==
  /\ pc[c] = "idle"
  /\ InOrder(c)
  /\ EnterCall(c, k)
  /\ UNCHANGED <<outerVars, poolVars>>

LaunchOkNotInitialized(c) ==
  /\ pc[c] = "launching"
  /\ ~MicroPending
  /\ browser' = FreshBrowser
  /\ alive' = alive \cup {FreshBrowser}
  /\ isInitialized' = isInitialized
  /\ cleanupIntervalHandle' = TRUE
  /\ timers' = timersAfterLaunch(cleanupIntervalHandle, timers)
  /\ AfterInitialize(c, kind[c])
  /\ UNCHANGED outerVars

\* puppeteer.launch resolved: the rest of initialize() runs, then its caller
LaunchOk(c) ==
  /\ pc[c] = "launching"
  /\ ~MicroPending
  /\ browser' = FreshBrowser
  /\ alive' = alive \cup {FreshBrowser}
  /\ isInitialized' = TRUE
  /\ cleanupIntervalHandle' = TRUE
  /\ timers' = timersAfterLaunch(cleanupIntervalHandle, timers)
  /\ AfterInitialize(c, kind[c])
  /\ UNCHANGED outerVars

\* puppeteer.launch rejected: initialize() throws, and so does its caller
LaunchFail(c) ==
  /\ pc[c] = "launching"
  /\ ~MicroPending
  /\ Finish(c, FALSE, "threw")
  /\ UNCHANGED <<outerVars, poolVars>>

\* the 'disconnected' handler registered by initialize() on browser b
Disconnect(b) ==
  /\ b \in alive
  /\ ~MicroPending
  /\ alive' = alive \ {b}
  /\ isInitialized' = FALSE
  /\ browser' = 0
  /\ UNCHANGED <<outerVars, cleanupIntervalHandle, timers, limiterVars,
                 callVars>>

\* getVersion(): browser.version() settled
VersionReturn(c) ==
  /\ pc[c] = "version"
  /\ ~MicroPending
  /\ Finish(c, FALSE, "retOk")
  /\ UNCHANGED <<outerVars, poolVars>>

\* if (!this.browser) after the slot was granted: loadPage throws,
\* screenshotUrl releases the slot and throws
CheckBrowser(c) ==
  /\ pc[c] \in {"granted", "resumed"}
  /\ IF browser # 0
       THEN /\ pc' = [pc EXCEPT ![c] = "newPage"]
            /\ onBrowser' = [onBrowser EXCEPT ![c] = browser]
            /\ UNCHANGED <<limiterVars, kind, page, result>>
       ELSE Finish(c, kind[c] = "screenshotUrl", "threw")
  /\ UNCHANGED <<outerVars, poolVars>>

\* browser.newPage() resolved
NewPageOk(c) ==
  /\ pc[c] = "newPage"
  /\ ~MicroPending
  /\ onBrowser[c] \in alive
  /\ page' = [page EXCEPT ![c] = "open"]
  /\ pc' = [pc EXCEPT ![c] = "navigating"]
  /\ UNCHANGED <<outerVars, poolVars, limiterVars, kind, onBrowser, result>>

\* browser.newPage() rejected: inside the try of loadPage (catch, then the
\* finally releases), before the try of screenshotUrl (nothing releases)
NewPageFail(c) ==
  /\ pc[c] = "newPage"
  /\ ~MicroPending
  /\ IF kind[c] = "loadPage"
       THEN Finish(c, TRUE, "retFail")
       ELSE Finish(c, FALSE, "threw")
  /\ UNCHANGED <<outerVars, poolVars>>

\* the body of the try block ran to its return
NavOk(c) ==
  /\ pc[c] = "navigating"
  /\ ~MicroPending
  /\ onBrowser[c] \in alive
  /\ result' = [result EXCEPT ![c] = "ok"]
  /\ pc' = [pc EXCEPT ![c] = "closing"]
  /\ UNCHANGED <<outerVars, poolVars, limiterVars, kind, page, onBrowser>>

\* something in the try block threw: loadPage builds its error result,
\* screenshotUrl lets the error pass
NavFail(c) ==
  /\ pc[c] = "navigating"
  /\ ~MicroPending
  /\ result' = [result EXCEPT ![c] = IF kind[c] = "loadPage" THEN "fail" ELSE "threw"]
  /\ pc' = [pc EXCEPT ![c] = "closing"]
  /\ UNCHANGED <<outerVars, poolVars, limiterVars, kind, page, onBrowser>>

\* finally: page.close() resolved, then releaseSlot()
CloseOk(c) ==
  /\ pc[c] = "closing"
  /\ ~MicroPending
  /\ onBrowser[c] \in alive
  /\ Finish(c, TRUE, Settled(result[c]))
  /\ UNCHANGED <<outerVars, poolVars>>

CloseFailAlwaysEscapes(c) ==
  /\ pc[c] = "closing"
  /\ ~MicroPending
  /\ Finish(c, FALSE, "threw")
  /\ UNCHANGED <<outerVars, poolVars>>

\* finally: page.close() rejected; loadPage logs it and releases, screenshotUrl
\* lets it escape before its releaseSlot()
CloseFail(c) ==
  /\ pc[c] = "closing"
  /\ ~MicroPending
  /\ IF kind[c] = "loadPage"
       THEN Finish(c, TRUE, Settled(result[c]))
       ELSE Finish(c, FALSE, "threw")
  /\ UNCHANGED <<outerVars, poolVars>>

----------------------------------------------------------------------------
\* WebsiteAuditor.auditWebsite, with loadPageWithRetry and the retryWithBackoff
\* run inside it. An audit drives the call of the same number.

AuditOver(c, st, error, shots) ==
  /\ audit' = [audit EXCEPT ![c] = [@ EXCEPT !.st = st, !.error = error, !.shots = shots]]
  /\ pc' = [pc EXCEPT ![c] = "done"]
  /\ UNCHANGED <<limiterVars, kind, page, onBrowser, result>>

\* auditWebsite(url, options) is entered: the URL is validated, and the first
\* attempt of loadPageWithRetry enters loadPage
AuditStart(c, valid, shot) ==
  /\ pc[c] = "idle"
  /\ InOrder(c)
  /\ IF ~valid
       THEN /\ audit' = [audit EXCEPT ![c] = [@ EXCEPT !.st = "failed", !.op = "auditWebsite",
                                                       !.error = validationError]]
            /\ pc' = [pc EXCEPT ![c] = "done"]
            /\ UNCHANGED <<limiterVars, kind, page, onBrowser, result>>
       ELSE IF retryLoopContinues(0, LoadMaxRetries)
         THEN /\ audit' = [audit EXCEPT ![c] = [@ EXCEPT !.st = "loading", !.op = "auditWebsite",
                                                         !.shot = shot, !.loads = 1]]
              /\ EnterCall(c, "loadPage")
         ELSE /\ audit' = [audit EXCEPT ![c] = [@ EXCEPT !.st = "failed", !.op = "auditWebsite",
                                                         !.error = auditCatchError]]
              /\ pc' = [pc EXCEPT ![c] = "done"]
              /\ UNCHANGED <<limiterVars, kind, page, onBrowser, result>>
  /\ UNCHANGED <<maxConcurrentPages, retry, capture, sideVars, poolVars>>

screenshotFieldEscalates(out) ==
  IF out = "retOk" THEN [st |-> "success", shots |-> "ok"]
                   ELSE [st |-> "failed", shots |-> "error"]

\* auditWebsite: what the settled screenshotUrl makes of the result: the shots,
\* or an empty list and screenshotError
screenshotField(out) ==
  IF out = "retOk" THEN [st |-> "success", shots |-> "ok"]
                   ELSE [st |-> "success", shots |-> "error"]

\* the loadPage or screenshotUrl awaited by auditWebsite has settled. After
\* loadPage: a failed attempt is retried after a delay, or fails the audit
\* from the catch of auditWebsite when it was the last; a success is parsed,
\* and screenshotUrl is entered if asked for. After screenshotUrl: the audit
\* succeeds, with the shots or with screenshotError.
AuditContinue(c, parseOk) ==
  /\ pc[c] \in {"retOk", "retFail", "threw"}
  /\ audit[c].op = "auditWebsite"
  /\ IF audit[c].st = "loading"
       THEN IF loadSucceeded(pc[c])
              THEN IF pc[c] # "retOk"
                     THEN AuditOver(c, "failed", pageLoadingError, "none")
                     ELSE IF ~parseOk
                       THEN AuditOver(c, "failed", auditCatchError, "none")
                       ELSE IF audit[c].shot
                         THEN /\ audit' = [audit EXCEPT ![c] = [@ EXCEPT !.st = "capturing"]]
                              /\ EnterCall(c, "screenshotUrl")
                         ELSE AuditOver(c, "success", NoError, "none")
              ELSE IF retryExhausted(audit[c].attempt, LoadMaxRetries)
                     THEN AuditOver(c, "failed", auditCatchError, "none")
                     ELSE /\ audit' = [audit EXCEPT ![c] = [@ EXCEPT !.st = "backoff"]]
                          /\ pc' = [pc EXCEPT ![c] = "backoff"]
                          /\ UNCHANGED <<limiterVars, kind, page, onBrowser, result>>
       ELSE AuditOver(c, screenshotField(pc[c]).st, NoError, screenshotField(pc[c]).shots)
  /\ UNCHANGED <<maxConcurrentPages, retry, capture, sideVars, poolVars>>

\* the backoff timer fired: the next attempt enters loadPage
BackoffDone(c) ==
  /\ pc[c] = "backoff"
  /\ ~MicroPending
  /\ IF retryLoopContinues(audit[c].attempt + 1, LoadMaxRetries)
       THEN /\ audit' = [audit EXCEPT ![c] = [@ EXCEPT !.st = "loading", !.attempt = @ + 1,
                                                       !.loads = @ + 1]]
            /\ EnterCall(c, "loadPage")
       ELSE AuditOver(c, "failed", auditCatchError, "none")
  /\ UNCHANGED <<maxConcurrentPages, retry, capture, sideVars, poolVars>>

----------------------------------------------------------------------------
\* WebsiteAuditor.quickAudit and WebsiteAuditor.checkUrlAccessibility: one
\* loadPage, no retry

\* quickAudit: the error of a loadPage result that is not a success
quickLoadError == [code |-> "PAGE_LOAD_FAILED", step |-> "none", wrapped |-> FALSE]

\* quickAudit: the error built by its catch
quickCatchError == [code |-> "QUICK_AUDIT_FAILED", step |-> "none", wrapped |-> TRUE]

accessCatchErrorDropped == NoError

\* checkUrlAccessibility: the message of what its catch caught
accessCatchError == [code |-> "THROWN", step |-> "none", wrapped |-> FALSE]

validationAcquiresFirst(c, valid) == EnterCall(c, "loadPage")

\* validateUrl(url) decides whether the method goes on to loadPage; when it
\* fails nothing else is touched
afterValidation(c, valid) ==
  IF valid
    THEN EnterCall(c, "loadPage")
    ELSE /\ pc' = [pc EXCEPT ![c] = "done"]
         /\ UNCHANGED <<limiterVars, kind, page, onBrowser, result>>

\* quickAudit(url, options) is entered
QuickAuditStart(c, valid) ==
  /\ pc[c] = "idle"
  /\ InOrder(c)
  /\ audit' = [audit EXCEPT ![c] =
                 IF valid THEN [@ EXCEPT !.st = "loading", !.op = "quickAudit", !.loads = 1]
                          ELSE [@ EXCEPT !.st = "failed", !.op = "quickAudit",
                                         !.error = validationError]]
  /\ afterValidation(c, valid)
  /\ UNCHANGED <<maxConcurrentPages, retry, capture, sideVars, poolVars>>

QuickAuditContinueRetries(c, parseOk) ==
  /\ pc[c] \in {"retOk", "retFail", "threw"}
  /\ audit[c].op = "quickAudit"
  /\ IF pc[c] # "retOk" /\ ~retryExhausted(audit[c].attempt, LoadMaxRetries)
       THEN /\ audit' = [audit EXCEPT ![c] = [@ EXCEPT !.attempt = @ + 1, !.loads = @ + 1]]
            /\ EnterCall(c, "loadPage")
       ELSE IF pc[c] = "threw"
         THEN AuditOver(c, "failed", quickCatchError, "none")
         ELSE IF pc[c] = "retFail"
           THEN AuditOver(c, "failed", quickLoadError, "none")
           ELSE IF parseOk
             THEN AuditOver(c, "success", NoError, "none")
             ELSE AuditOver(c, "failed", quickCatchError, "none")
  /\ UNCHANGED <<maxConcurrentPages, retry, capture, sideVars, poolVars>>

\* the loadPage awaited by quickAudit has settled
QuickAuditContinue(c, parseOk) ==
  /\ pc[c] \in {"retOk", "retFail", "threw"}
  /\ audit[c].op = "quickAudit"
  /\ IF pc[c] = "threw"
       THEN AuditOver(c, "failed", quickCatchError, "none")
       ELSE IF pc[c] = "retFail"
         THEN AuditOver(c, "failed", quickLoadError, "none")
         ELSE IF parseOk
           THEN AuditOver(c, "success", NoError, "none")
           ELSE AuditOver(c, "failed", quickCatchError, "none")
  /\ UNCHANGED <<maxConcurrentPages, retry, capture, sideVars, poolVars>>

\* checkUrlAccessibility(url) is entered
CheckUrlStart(c, valid) ==
  /\ pc[c] = "idle"
  /\ InOrder(c)
  /\ audit' = [audit EXCEPT ![c] =
                 IF valid THEN [@ EXCEPT !.st = "loading", !.op = "checkUrlAccessibility",
                                         !.loads = 1]
                          ELSE [@ EXCEPT !.st = "failed", !.op = "checkUrlAccessibility",
                                         !.error = validationError]]
  /\ afterValidation(c, valid)
  /\ UNCHANGED <<maxConcurrentPages, retry, capture, sideVars, poolVars>>

\* the loadPage awaited by checkUrlAccessibility has settled: accessible is
\* the success of the load
CheckUrlContinue(c) ==
  /\ pc[c] \in {"retOk", "retFail", "threw"}
  /\ audit[c].op = "checkUrlAccessibility"
  /\ IF pc[c] = "threw"
       THEN AuditOver(c, "failed", accessCatchError, "none")
       ELSE IF pc[c] = "retFail"
         THEN AuditOver(c, "failed", quickLoadError, "none")
         ELSE AuditOver(c, "success", NoError, "none")
  /\ UNCHANGED <<maxConcurrentPages, retry, capture, sideVars, poolVars>>

----------------------------------------------------------------------------
\* retryWithBackoff(fn, maxRetries, baseDelay) on an operation that fails k
\* times and then succeeds

serviceVars == <<maxConcurrentPages, audit, capture, sideVars, poolVars, limiterVars,
                 callVars>>

\* the call: the loop is entered and fn is invoked, or the loop is skipped and
\* the unassigned lastError is thrown
RetryCall(m, k, base) ==
  /\ retry.st = "idle"
  /\ retry' = IF retryLoopContinues(0, m)
                THEN [RetryIdle EXCEPT !.st = "calling", !.maxRetries = m, !.k = k,
                                       !.baseDelay = base, !.attempts = 1]
                ELSE [RetryIdle EXCEPT !.st = "threw", !.maxRetries = m, !.k = k,
                                       !.baseDelay = base]
  /\ UNCHANGED serviceVars

\* fn() settled: resolved, the value is returned; rejected, the error is kept
\* (isError: it is an Error), and it is thrown if this was the last attempt,
\* else the delay is awaited
RetryFnSettled(isError, jitter) ==
  /\ retry.st = "calling"
  /\ retry' =
       IF retry.attempts > retry.k
         THEN [retry EXCEPT !.st = "returned"]
         ELSE IF retryExhausted(retry.attempt, retry.maxRetries)
           THEN [retry EXCEPT !.st = "threw", !.lastError = retry.attempts,
                              !.wrapped = ~isError, !.delay = 0]
           ELSE [retry EXCEPT !.st = "sleeping", !.lastError = retry.attempts,
                              !.wrapped = ~isError,
                              !.delay = retryDelay(retry.baseDelay, retry.attempt, jitter)]
  /\ UNCHANGED serviceVars

\* the delay is over: attempt++, and the loop test
RetryTimerFired ==
  /\ retry.st = "sleeping"
  /\ retry' =
       IF retryLoopContinues(retry.attempt + 1, retry.maxRetries)
         THEN [retry EXCEPT !.st = "calling", !.attempt = @ + 1, !.attempts = @ + 1]
         ELSE [retry EXCEPT !.st = "threw", !.attempt = @ + 1]
  /\ UNCHANGED serviceVars

----------------------------------------------------------------------------
\* BrowserService.screenshotUrl: the try block from the measured page on

\* page.evaluate returned the dimensions: the captures are laid out and the
\* first page.screenshot is awaited
CaptureMeasured(h, opt) ==
  /\ capture.st = "idle"
  /\ capture' = [CaptureIdle EXCEPT !.st = "shooting", !.H = h,
                                    !.M = maxSingleImageHeight(opt),
                                    !.parts = captureParts(h, maxSingleImageHeight(opt))]
  /\ UNCHANGED <<maxConcurrentPages, audit, retry, sideVars, poolVars, limiterVars,
               callVars>>

\* page.screenshot settled
CaptureShot(ok) ==
  /\ capture.st = "shooting"
  /\ capture' =
       IF ok THEN [capture EXCEPT !.st = "writing",
                                  !.clips = Append(@, clipOf(capture.parts[capture.next]))]
             ELSE captureError(capture)
  /\ UNCHANGED <<maxConcurrentPages, audit, retry, sideVars, poolVars, limiterVars,
               callVars>>

\* fs.promises.writeFile settled: the artifact is pushed to results, and the
\* next part follows or results is returned
CaptureWritten(ok) ==
  /\ capture.st = "writing"
  /\ capture' =
       IF ~ok THEN captureError(capture)
       ELSE LET name == capture.parts[capture.next].suffix
                res == Append(capture.results, name)
            IN IF capture.next = Len(capture.parts)
                 THEN [capture EXCEPT !.st = "returned", !.results = res, !.returned = res,
                                      !.storage = @ \cup {name}]
                 ELSE [capture EXCEPT !.st = "shooting", !.results = res, !.next = @ + 1,
                                      !.storage = @ \cup {name}]
  /\ UNCHANGED <<maxConcurrentPages, audit, retry, sideVars, poolVars, limiterVars,
               callVars>>

----------------------------------------------------------------------------

\* Limiter view: loadPage and screenshotUrl calls against the shared browser
Next ==
  \/ \E c \in Calls, k \in SlotKinds : Call(c, k)
  \/ \E c \in Calls : LaunchOk(c)
  \/ \E c \in Calls : LaunchFail(c)
  \/ \E b \in BrowserIds : Disconnect(b)
  \/ \E c \in Calls : CheckBrowser(c)
  \/ \E c \in Calls : NewPageOk(c)
  \/ \E c \in Calls : NewPageFail(c)
  \/ \E c \in Calls : NavOk(c)
  \/ \E c \in Calls : NavFail(c)
  \/ \E c \in Calls : CloseOk(c)
  \/ \E c \in Calls : CloseFail(c)

Spec == Init /\ [][Next]_vars

\* Pool view: initialize, getVersion, isReady and loadPage calls
NextPool ==
  \/ \E c \in Calls : IsReadyCall(c)
  \/ \E c \in Calls, k \in PoolKinds : Call(c, k)
  \/ \E c \in Calls : LaunchOk(c)
  \/ \E c \in Calls : LaunchFail(c)
  \/ \E b \in BrowserIds : Disconnect(b)
  \/ \E c \in Calls : VersionReturn(c)
  \/ \E c \in Calls : CheckBrowser(c)
  \/ \E c \in Calls : NewPageOk(c)
  \/ \E c \in Calls : NewPageFail(c)
  \/ \E c \in Calls : NavOk(c)
  \/ \E c \in Calls : NavFail(c)
  \/ \E c \in Calls : CloseOk(c)
  \/ \E c \in Calls : CloseFail(c)

PoolSpec == Init /\ [][NextPool]_vars

\* Every step of a call in flight is eventually taken: launches, page
\* operations and navigations settle (each has a timeout), and pending
\* continuations run.
CallStep(c) ==
  \/ LaunchOk(c) \/ LaunchFail(c) \/ CheckBrowser(c)
  \/ NewPageOk(c) \/ NewPageFail(c) \/ NavOk(c) \/ NavFail(c)
  \/ CloseOk(c) \/ CloseFail(c)

FairSpec == Init /\ [][Next]_vars /\ \A c \in Calls : WF_vars(CallStep(c))

\* retryWithBackoff on its own
NextRetry ==
  \/ \E m \in RetryCounts, k \in 0..MaxFailures, base \in BaseDelays :
       RetryCall(m, k, base)
  \/ \E isError \in BOOLEAN, jitter \in Jitters : RetryFnSettled(isError, jitter)
  \/ RetryTimerFired

RetrySpec == Init /\ [][NextRetry]_vars

\* Audits of valid URLs whose page loads, parses and screenshots all succeed
\* and whose browsers stay connected
NextLoadsSucceed ==
  \/ \E c \in Calls, shot \in BOOLEAN : AuditStart(c, TRUE, shot)
  \/ \E c \in Calls : LaunchOk(c)
  \/ \E c \in Calls : CheckBrowser(c)
  \/ \E c \in Calls : NewPageOk(c)
  \/ \E c \in Calls : NavOk(c)
  \/ \E c \in Calls : CloseOk(c)
  \/ \E c \in Calls : AuditContinue(c, TRUE)

AuditStep(c) ==
  \/ LaunchOk(c) \/ CheckBrowser(c) \/ NewPageOk(c) \/ NavOk(c) \/ CloseOk(c)
  \/ AuditContinue(c, TRUE)

\* Launches, page operations and navigations settle, and pending continuations
\* run
LoadsSucceedSpec ==
  Init /\ [][NextLoadsSucceed]_vars /\ \A c \in Calls : WF_vars(AuditStep(c))

\* The try block of screenshotUrl on its own
NextCapture ==
  \/ \E h \in PageHeights, opt \in MaxHeightOptions : CaptureMeasured(h, opt)
  \/ \E ok \in BOOLEAN : CaptureShot(ok)
  \/ \E ok \in BOOLEAN : CaptureWritten(ok)

CaptureSpec == Init /\ [][NextCapture]_vars

\* Failure view: auditor runs with every outcome of validation, launch, page,
\* navigation, close and parse, and with disconnects
NextAudit ==
  \/ \E c \in 1..NumAudits, valid \in BOOLEAN, shot \in BOOLEAN : AuditStart(c, valid, shot)
  \/ \E c \in 1..NumAudits, valid \in BOOLEAN : QuickAuditStart(c, valid)
  \/ \E c \in 1..NumAudits, valid \in BOOLEAN : CheckUrlStart(c, valid)
  \/ \E c \in Calls : LaunchOk(c)
  \/ \E c \in Calls : LaunchFail(c)
  \/ \E b \in BrowserIds : Disconnect(b)
  \/ \E c \in Calls : CheckBrowser(c)
  \/ \E c \in Calls : NewPageOk(c)
  \/ \E c \in Calls : NewPageFail(c)
  \/ \E c \in Calls : NavOk(c)
  \/ \E c \in Calls : NavFail(c)
  \/ \E c \in Calls : CloseOk(c)
  \/ \E c \in Calls : CloseFail(c)
  \/ \E c \in Calls, parseOk \in BOOLEAN : AuditContinue(c, parseOk)
  \/ \E c \in Calls, parseOk \in BOOLEAN : QuickAuditContinue(c, parseOk)
  \/ \E c \in Calls : CheckUrlContinue(c)
  \/ \E c \in Calls : BackoffDone(c)

AuditSpec == Init /\ [][NextAudit]_vars

-----------------------------------------------------------------------------
\* The cleanup timer and the screenshot directory

coreVars == <<maxConcurrentPages, audit, retry, capture, poolVars, limiterVars, callVars>>

\* initialize, after the first successful launch: the interval is computed
\* from the TTL and the recurring timer is created
CleanupTimerCreated(env) ==
  /\ cleanup.st = "off"
  /\ cleanup' = [cleanup EXCEPT !.st = "on", !.ttl = screenshotTTL(env),
                   !.interval = cleanupInterval(screenshotTTL(env)),
                   !.nextSweep = nextSweepAfter(0, cleanupInterval(screenshotTTL(env)))]
  /\ UNCHANGED <<coreVars, req, pages>>

\* screenshotUrl: writeFile stores an artifact, last modified now
ArtifactWritten ==
  /\ cleanup.st = "on"
  /\ cleanup.written < MaxFiles
  /\ cleanup' = [cleanup EXCEPT !.written = @ + 1,
                   !.files = @ \cup {[name |-> cleanup.written + 1,
                                      mtime |-> cleanup.now, failed |-> FALSE]}]
  /\ UNCHANGED <<coreVars, req, pages>>

\* Time passes, up to the next run of the timer: to one millisecond after
\* the last run, to one millisecond before the next, to the next
ClockAdvance ==
  /\ cleanup.st = "on"
  /\ cleanup.now < cleanup.nextSweep
  /\ cleanup' = [cleanup EXCEPT !.now =
                   IF cleanup.now = cleanup.nextSweep - cleanup.interval THEN cleanup.now + 1
                   ELSE IF cleanup.now < cleanup.nextSweep - 1 THEN cleanup.nextSweep - 1
                   ELSE cleanup.nextSweep]
  /\ UNCHANGED <<coreVars, req, pages>>

\* The timer fires: one run of cleanupScreenshots
CleanupSweep(errs, dirOk) ==
  /\ cleanup.st = "on"
  /\ cleanup.now = cleanup.nextSweep
  /\ cleanup.sweeps < MaxSweeps
  /\ cleanup' = [cleanup EXCEPT !.sweeps = @ + 1,
                   !.nextSweep = nextSweepAfter(cleanup.now, cleanup.interval),
                   !.files = sweepFiles(cleanup.files, cleanup.now, cleanup.ttl, errs, dirOk),
                   !.outcome = sweepOutcome(dirOk)]
  /\ UNCHANGED <<coreVars, req, pages>>

NextCleanup ==
  \/ \E env \in TTLEnvs : CleanupTimerCreated(env)
  \/ ArtifactWritten
  \/ ClockAdvance
  \/ \E errs \in SUBSET (1..MaxFiles), dirOk \in BOOLEAN : CleanupSweep(errs, dirOk)

CleanupSpec == Init /\ [][NextCleanup]_vars

-----------------------------------------------------------------------------
\* One request: the route, the auditor method, its loadPage calls, the parse

\* the method returns res; a route that awaited it answers
finish(r, res) ==
  [r EXCEPT !.st = "over", !.result = res,
            !.http = IF r.via = "http" THEN httpResponse(r.route, res) ELSE NoResponse]

\* auditWebsite / quickAudit / checkUrlAccessibility is entered: validateUrl,
\* then the first loadPage is called
enterAuditor(r, urlCase) ==
  IF urlCase = "valid"
    THEN [r EXCEPT !.st = "loading", !.timeout = navigationTimeout(r.op, r.opt)]
    ELSE finish(r, IF r.op = "checkUrlAccessibility"
                     THEN accessibilityInvalid(urlCase)
                     ELSE auditFailure(validateUrlError(urlCase)))

\* GET /audit, GET /audit/quick, GET /audit/check: the url parameter is
\* checked, and the auditor is called with no timeout option
HttpRequest(route, urlCase, shot) ==
  /\ req.st = "idle"
  /\ shot => route = "/audit"
  /\ LET r == [req EXCEPT !.via = "http", !.route = route, !.op = methodOf(route),
                          !.urlCase = urlCase, !.shot = shot]
     IN req' = IF routeRejects(route, urlCase)
                 THEN [r EXCEPT !.st = "over",
                                !.http = [status |-> 400, body |-> validateUrlError(urlCase)]]
                 ELSE enterAuditor(r, urlCase)
  /\ UNCHANGED <<coreVars, cleanup, pages>>

\* the auditor is called by other code, with or without a timeout option
DirectCall(op, urlCase, shot, opt) ==
  /\ req.st = "idle"
  /\ shot => op = "auditWebsite"
  /\ opt # << >> => op # "checkUrlAccessibility"
  /\ req' = enterAuditor([req EXCEPT !.via = "direct", !.op = op, !.urlCase = urlCase,
                                     !.shot = shot, !.opt = opt], urlCase)
  /\ UNCHANGED <<coreVars, cleanup, pages>>

\* the loadPage awaited by the method has settled. auditWebsite: inside
\* loadPageWithRetry a failed or rejected attempt is retried, and the last
\* one's error reaches the catch of auditWebsite; a success goes on to the
\* parse. quickAudit: a failed result is returned as it is, a rejection is
\* caught. checkUrlAccessibility: the result is built from the load.
LoadPageSettled(in) ==
  /\ req.st = "loading"
  /\ LET load == loadPage("requested", req.timeout, in)
         r == [req EXCEPT !.lastIn = in, !.load = load]
     IN req' =
          CASE req.op = "auditWebsite" ->
                 IF load.success THEN [r EXCEPT !.st = "parsing"]
                 ELSE IF retryExhausted(req.attempt, LoadMaxRetries)
                   THEN finish(r, auditFailure(apiError("AUDIT_FAILED",
                                    <<"Audit failed: ">> \o attemptErrorMessage(load))))
                   ELSE [r EXCEPT !.attempt = @ + 1]
            [] req.op = "quickAudit" ->
                 IF load.success THEN [r EXCEPT !.st = "parsing"]
                 ELSE IF load.threw
                   THEN finish(r, auditFailure(apiError("QUICK_AUDIT_FAILED",
                                    <<"Quick audit failed: ">> \o load.error.message)))
                   ELSE finish(r, auditFailure(load.error))
            [] req.op = "checkUrlAccessibility" ->
                 finish(r, accessibilityResult(load))
  /\ UNCHANGED <<coreVars, cleanup, pages>>

\* the parse of the loaded HTML has returned or thrown (text), and for
\* auditWebsite with includeScreenshot the screenshotUrl call after it has
\* settled (shotOk)
ParseSettled(ok, text, shotOk) ==
  /\ req.st = "parsing"
  /\ ~req.shot => shotOk
  /\ LET r == [req EXCEPT !.parsed = TRUE, !.parseOk = ok]
     IN req' =
          IF req.op = "auditWebsite"
            THEN IF ~ok
                   THEN finish(r, auditFailure(apiError("AUDIT_FAILED",
                                                        <<"Audit failed: ", text>>)))
                   ELSE finish(r, auditSuccess(
                          IF ~req.shot THEN auditData(req.load, "absent", << >>)
                          ELSE IF shotOk THEN auditData(req.load, "shots", << >>)
                          ELSE auditData(req.load, "empty", <<text>>)))
            ELSE IF ~ok
                   THEN finish(r, auditFailure(apiError("QUICK_AUDIT_FAILED",
                                                        <<"Quick audit failed: ", text>>)))
                   ELSE finish(r, auditSuccess(quickData(req.load)))
  /\ UNCHANGED <<coreVars, cleanup, pages>>

NextRequest ==
  \/ \E route \in Routes, urlCase \in UrlCases, shot \in BOOLEAN :
       HttpRequest(route, urlCase, shot)
  \/ \E op \in Methods, urlCase \in UrlCases, shot \in BOOLEAN, opt \in TimeoutOptions :
       DirectCall(op, urlCase, shot, opt)
  \/ \E in \in LoadInputs : LoadPageSettled(in)
  \/ \E ok \in BOOLEAN, text \in ExceptionTexts, shotOk \in BOOLEAN :
       ParseSettled(ok, text, shotOk)

RequestSpec == Init /\ [][NextRequest]_vars

-----------------------------------------------------------------------------
\* The pages of concurrent runs of loadPage and screenshotUrl

\* loadPage or screenshotUrl is past initialize and acquireSlot and calls
\* browser.newPage()
RunEntered(r, k) ==
  /\ pages.runs[r].st = "idle"
  /\ \A q \in Runs : q < r => pages.runs[q].st # "idle"
  /\ pages' = [pages EXCEPT !.runs[r] = [@ EXCEPT !.st = "newPage", !.kind = k]]
  /\ UNCHANGED <<coreVars, cleanup, req>>

\* browser.newPage() settled: the run holds its page, or it has none and
\* loadPage answers from its catch while screenshotUrl throws
RunNewPage(r, ok) ==
  /\ pages.runs[r].st = "newPage"
  /\ IF ok
       THEN LET p == freshPage(pages.opened)
            IN pages' = [pages EXCEPT !.opened = @ + 1,
                                      !.log[p].owners = @ \cup {r},
                                      !.runs[r] = [@ EXCEPT !.st = "body", !.page = p]]
       ELSE pages' = [pages EXCEPT !.runs[r] =
                        [@ EXCEPT !.st = "done",
                                  !.out = IF pages.runs[r].kind = "loadPage" THEN "retFail"
                                          ELSE "threw"]]
  /\ UNCHANGED <<coreVars, cleanup, req>>

\* the try block works on the run's page, and returns or throws
RunUsesPage(r, ok) ==
  /\ pages.runs[r].st = "body"
  /\ pages' = [pages EXCEPT
                 !.log[pages.runs[r].page].users = @ \cup {r},
                 !.runs[r] = [@ EXCEPT !.st = "finally",
                                       !.result = IF ok THEN "ok"
                                                  ELSE IF pages.runs[r].kind = "loadPage"
                                                    THEN "fail"
                                                  ELSE "threw"]]
  /\ UNCHANGED <<coreVars, cleanup, req>>

\* the finally block: page.close() is called and resolves or rejects, and
\* the run is over
RunFinally(r, closeOk) ==
  /\ pages.runs[r].st = "finally"
  /\ pages' = [pages EXCEPT
                 !.log[pages.runs[r].page].closes =
                    IF closesPage(pages.runs[r].page) THEN @ + 1 ELSE @,
                 !.runs[r] = [@ EXCEPT !.st = "done",
                                       !.out = settledAfterClose(pages.runs[r].kind,
                                                                pages.runs[r].result, closeOk)]]
  /\ UNCHANGED <<coreVars, cleanup, req>>

NextPages ==
  \/ \E r \in Runs, k \in {"loadPage", "screenshotUrl"} : RunEntered(r, k)
  \/ \E r \in Runs, ok \in BOOLEAN : RunNewPage(r, ok)
  \/ \E r \in Runs, ok \in BOOLEAN : RunUsesPage(r, ok)
  \/ \E r \in Runs, closeOk \in BOOLEAN : RunFinally(r, closeOk)

PagesSpec == Init /\ [][NextPages]_vars

----------------------------------------------------------------------------
\* Claims

Holders == {c \in Calls : hasSlot[c]}

\* C1: for every capacity N >= 1, never more than N calls hold a slot at the
\* same instant (nor does the counter pass N); and while N calls hold slots a
\* further caller obtains one only in a step in which a holder releases.
C1_AtMostCapacityHolders ==
  /\ [](maxConcurrentPages >= 1 =>
          /\ Cardinality(Holders) <= maxConcurrentPages
          /\ currentSlots <= maxConcurrentPages)
  /\ [][\A c \in Calls :
          (/\ maxConcurrentPages >= 1
           /\ Cardinality(Holders) >= maxConcurrentPages
           /\ ~hasSlot[c] /\ hasSlot'[c])
          => \E d \in Holders : ~hasSlot'[d]]_vars

C1_FullAndWaiting ==
  /\ maxConcurrentPages >= 1
  /\ Cardinality(Holders) = maxConcurrentPages
  /\ \E c \in Calls : pc[c] = "waiting"

\* C2: slots are handed out first come, first served. While calls wait, the
\* only call that can obtain a slot is the one that has waited longest (no
\* later caller gets one before it), and a releaseSlot() hands it the slot
\* within the releasing step.
C2_FifoHandOff ==
  [][arrivals # << >> =>
       /\ \A d \in Calls : (~hasSlot[d] /\ hasSlot'[d]) => d = Head(arrivals)
       /\ (\E c \in Holders : ~hasSlot'[c] /\ leaked' = leaked)
             => hasSlot'[Head(arrivals)]]_vars

C2_HandedWhileOthersWait ==
  \E c \in Calls : pc[c] = "resumed" /\ hasSlot[c] /\ arrivals # << >>

\* C3: every loadPage call that acquired a slot has released it when it
\* returns or throws: no loadPage call ends still counted in currentSlots.
C3_LoadPageAlwaysReleases == "loadPage" \notin leakedBy

\* C4: every screenshotUrl call that acquired a slot has released it when it
\* returns or throws, whatever the exit path.
C4_ScreenshotAlwaysReleases == "screenshotUrl" \notin leakedBy

\* C5: for every configured capacity, if every caller that is granted a slot
\* releases it (no slot is leaked), every caller waiting in acquireSlot is
\* eventually resumed.
C5_EveryWaiterResumes ==
  [](leaked = 0) =>
     \A c \in Calls : [](pc[c] = "waiting" => <>(pc[c] # "waiting"))

\* The audits whose loadPage holds a slot
Loading == {c \in Calls : audit[c].st = "loading" /\ hasSlot[c]}

\* C6: with capacity N >= 1 and more audits than N, when every page load
\* succeeds, never are more than N audits loading at the same instant, and
\* from some point on every audit that was issued has returned success.
C6_AllAuditsSucceed ==
  /\ [](maxConcurrentPages >= 1 => Cardinality(Loading) <= maxConcurrentPages)
  /\ (maxConcurrentPages >= 1
        => <>[](\A c \in Calls : audit[c].st \in {"none", "success"}))

C6_OneDoneOneLoadingOneQueued ==
  /\ maxConcurrentPages >= 1
  /\ maxConcurrentPages < NumCalls
  /\ Cardinality(Loading) = maxConcurrentPages
  /\ \E c \in Calls : audit[c].st = "success"
  /\ \E c \in Calls : audit[c].st = "loading" /\ pc[c] = "waiting"

\* C7: callers of initialize() that arrive while a launch is in progress share
\* it: never is more than one puppeteer.launch in progress.
C7_OneLaunchInProgress == Cardinality({c \in Calls : pc[c] = "launching"}) <= 1

\* C8: a disconnect leaves the pool not ready; a call that runs initialize()
\* on a pool that is not ready launches, and the pool is ready when the launch
\* has resolved, with the new browser as its browser; initialize() on a ready
\* pool launches nothing.
C8_RelaunchAfterDisconnect ==
  [][/\ (alive' # alive /\ alive' \subseteq alive) => ~isReady'
     /\ \A c \in Calls :
          (pc[c] = "idle" /\ pc'[c] # "idle")
            => IF isReady THEN pc'[c] # "launching"
                          ELSE (kind'[c] # "none" => pc'[c] = "launching")
     /\ (alive' # alive /\ alive \subseteq alive')
            => isReady' /\ browser' \in alive' \ alive]_vars

C8_ReadyAgainAfterDisconnect ==
  /\ isReady
  /\ \E c \in Calls : onBrowser[c] # 0 /\ onBrowser[c] \notin alive

\* A step of call c running getVersion()
GetVersionStep(c) == pc'[c] # pc[c] /\ "getVersion" \in {kind[c], kind'[c]}

\* C9 as claimed: no step of getVersion() or isReady() changes the pool state.
C9_QueriesArePure ==
  [][\A c \in Calls :
       (IsReadyCall(c) \/ GetVersionStep(c)) => UNCHANGED poolVars]_vars

\* C9 as amended: isReady() leaves the pool state unchanged in every state;
\* getVersion() does when the pool is ready as it is called (it goes straight to
\* browser.version()); called on a pool that is not ready it launches, and the
\* launch, when it resolves, makes the pool ready with a new browser.
C9_GetVersionInitializes ==
  [][\A c \in Calls :
       /\ IsReadyCall(c) => UNCHANGED poolVars
       /\ (GetVersionStep(c) /\ pc[c] = "idle")
            => /\ UNCHANGED poolVars
               /\ pc'[c] = IF isReady THEN "version" ELSE "launching"
       /\ (GetVersionStep(c) /\ pc[c] = "version") => UNCHANGED poolVars
       /\ (GetVersionStep(c) /\ pc[c] = "launching")
            => \/ UNCHANGED poolVars /\ pc'[c] = "done"
               \/ isReady' /\ browser' \notin alive /\ pc'[c] = "version"]_vars

C9_GetVersionLaunched ==
  /\ kind[1] = "getVersion" /\ pc[1] = "version" /\ isReady
  /\ \A d \in Calls \ {1} : pc[d] = "idle"

\* C10: on an operation that fails exactly k times and then succeeds,
\* retryWithBackoff returns only when maxRetries >= k, and then after exactly
\* k + 1 attempts; it throws only when maxRetries < k, and then after exactly
\* maxRetries + 1 attempts; and it never makes more than maxRetries + 1
\* attempts.
C10_AttemptsCounted ==
  /\ retry.st = "returned" =>
       retry.maxRetries >= retry.k /\ retry.attempts = retry.k + 1
  /\ retry.st = "threw" =>
       retry.maxRetries < retry.k /\ retry.attempts = retry.maxRetries + 1
  /\ retry.st # "idle" => retry.attempts <= retry.maxRetries + 1

C10_ReturnedAfterRetries ==
  retry.st = "returned" /\ retry.k = 2 /\ retry.attempts = 3

\* C11 as claimed: the delay waited before attempt i (0-indexed, i >= 1; i
\* invocations were made so far) is baseDelay * 2^i plus a jitter in
\* [0, 1000): with baseDelay 1000, at least 2000 before attempt 1 and at least
\* 4000 before attempt 2.
C11_DelayFromTwiceBase ==
  retry.st = "sleeping" =>
    /\ retry.delay >= retry.baseDelay * Pow2(retry.attempts)
    /\ retry.delay < retry.baseDelay * Pow2(retry.attempts) + 1000

\* C11 as amended: the delay waited before attempt i (0-indexed, i >= 1) is
\* baseDelay * 2^(i-1) plus a jitter in [0, 1000): with baseDelay 1000, from
\* 1000 to under 2000 before attempt 1 and from 2000 to under 3000 before
\* attempt 2.
C11_DelayFromBase ==
  retry.st = "sleeping" =>
    /\ retry.delay >= retry.baseDelay * Pow2(retry.attempts - 1)
    /\ retry.delay < retry.baseDelay * Pow2(retry.attempts - 1) + 1000
    /\ (retry.baseDelay = 1000 /\ retry.attempts = 1) => retry.delay \in 1000..1999
    /\ (retry.baseDelay = 1000 /\ retry.attempts = 2) => retry.delay \in 2000..2999
    /\ (retry.baseDelay = 1000 /\ retry.attempts = 3) => retry.delay \in 4000..4999

C11_WaitingBeforeThirdInvocation ==
  /\ retry.st = "sleeping" /\ retry.baseDelay = 1000
  /\ retry.attempts = 2 /\ retry.delay = 2999

\* The last load attempt of a full audit returned a failure result, and the
\* audit fails in this step
LastLoadFailed(c) ==
  /\ audit[c].op = "auditWebsite" /\ audit[c].st = "loading"
  /\ pc[c] = "retFail"
  /\ audit'[c].st = "failed"

\* C12: a full audit whose load attempts all fail returns its failure after
\* exactly 3 load attempts, and the failure names the step "page_loading".
C12_ExhaustedLoadsNamePageLoading ==
  [][\A c \in Calls :
       LastLoadFailed(c) =>
         /\ audit'[c].loads = 3
         /\ audit'[c].error.step = "page_loading"]_vars

\* C13: when the retries are exhausted the failure the full audit reports is
\* the error of the last load attempt, with its code PAGE_LOAD_FAILED and its
\* message as they were, not wrapped or re-coded.
C13_LastLoadErrorReported ==
  [][\A c \in Calls :
       LastLoadFailed(c) =>
         /\ audit'[c].error.code = "PAGE_LOAD_FAILED"
         /\ ~audit'[c].error.wrapped]_vars

\* The load of a full audit succeeded and the audit fails in this step, which
\* is what a throwing parse step does
ParseThrew(c) ==
  /\ audit[c].op = "auditWebsite" /\ audit[c].st = "loading"
  /\ pc[c] = "retOk"
  /\ audit'[c].st = "failed"

ValidationFailed(c) == pc[c] = "idle" /\ audit'[c].error = validationError

\* C15: when URL validation fails, auditWebsite, quickAudit and
\* checkUrlAccessibility return a failure in the same step, having made no load
\* attempt, launched nothing and neither taken nor queued for a slot: pool and
\* limiter state are unchanged.
C15_ValidationFailureTouchesNothing ==
  [][\A c \in Calls :
       ValidationFailed(c) =>
         /\ audit'[c].st = "failed" /\ pc'[c] = "done"
         /\ audit'[c].loads = 0
         /\ \A d \in Calls : pc'[d] = "launching" => pc[d] = "launching"
         /\ UNCHANGED <<poolVars, limiterVars>>]_vars

C15_QuickAuditRejectedUrl ==
  /\ audit[1].op = "quickAudit" /\ audit[1].st = "failed"
  /\ audit[1].error = validationError /\ pc[1] = "done"

\* C16: a full audit enters screenshotUrl only when includeScreenshot was set,
\* and only after load and parse succeeded; however the capture ends (resolved,
\* or rejected by launch, browser check, newPage, navigation and capture, or
\* page close), the audit returns success, carrying the shots when it
\* resolved and an empty list with screenshotError when it did not; an audit
\* without includeScreenshot carries no screenshot field.
C16_CaptureNeverEscalates ==
  [][\A c \in Calls :
       /\ (audit[c].st # "capturing" /\ audit'[c].st = "capturing")
            => audit[c].shot /\ audit[c].st = "loading" /\ pc[c] = "retOk"
       /\ (audit[c].st = "capturing" /\ audit'[c].st # "capturing")
            => /\ pc[c] \in {"retOk", "threw"}
               /\ audit'[c].st = "success"
               /\ audit'[c].error = NoError
               /\ audit'[c].shots = IF pc[c] = "retOk" THEN "ok" ELSE "error"
       /\ (audit[c].st = "loading" /\ audit'[c].st = "success")
            => ~audit[c].shot /\ audit'[c].shots = "none"]_vars

C16_SucceededWithScreenshotError ==
  /\ audit[1].st = "success" /\ audit[1].shot
  /\ audit[1].shots = "error"

\* C17: a screenshotUrl that returns, for a page of height H and a maximum
\* single-capture height M, returns exactly 1 artifact when H <= M and exactly
\* 2 when H > M, part1 then part2, under distinct filenames; every artifact
\* returned is a file in storage; it never returns none or more than 2.
C17_OneOrTwoArtifacts ==
  capture.st = "returned" =>
    /\ Len(capture.returned) \in {1, 2}
    /\ capture.H <= capture.M => Len(capture.returned) = 1
    /\ capture.H > capture.M =>
         /\ Len(capture.returned) = 2
         /\ capture.returned = <<"part1", "part2">>
         /\ capture.returned[1] # capture.returned[2]
    /\ \A i \in 1..Len(capture.returned) : capture.returned[i] \in capture.storage
    /\ Cardinality(capture.storage) = Len(capture.returned)

C17_TwoPartsOfDoubleHeightPage ==
  /\ capture.st = "returned" /\ capture.M = 1 /\ capture.H = 2
  /\ Len(capture.returned) = 2

\* C18: for every H > M >= 0, with half the least whole number not below H/2,
\* the split capture lays out part1 = (y 0, height min(half + 80, H)) and
\* part2 = (y max(half - 80, 0), height H - y); both heights are at least 1,
\* both parts lie inside [0, H], the two heights add up to more than H, and
\* these are the clips captured.
C18_SplitGeometry ==
  (capture.st # "idle" /\ capture.H > capture.M /\ capture.M >= 0) =>
    \E half \in 0..capture.H :
      /\ 2 * half >= capture.H /\ 2 * (half - 1) < capture.H
      /\ LET H == capture.H
             p1 == capture.parts[1]
             p2 == capture.parts[2]
             y2 == IF half - 80 > 0 THEN half - 80 ELSE 0
         IN /\ Len(capture.parts) = 2
            /\ p1.y = 0 /\ p1.height = (IF half + 80 < H THEN half + 80 ELSE H)
            /\ p2.y = y2 /\ p2.height = H - y2
            /\ p1.height >= 1 /\ p2.height >= 1
            /\ p1.y >= 0 /\ p1.y + p1.height <= H
            /\ p2.y >= 0 /\ p2.y + p2.height <= H
            /\ p1.height + p2.height > H
            /\ \A i \in 1..Len(capture.clips) :
                 /\ capture.clips[i].y = capture.parts[i].y
                 /\ capture.clips[i].height = capture.parts[i].height

C18_TallPageSplit ==
  /\ capture.st = "returned" /\ capture.H = 170 /\ capture.M = 100
  /\ capture.clips = << [y |-> 0, height |-> 165], [y |-> 5, height |-> 165] >>

\* Neither part of the split capture is cut short by the page bounds
Unclamped ==
  /\ Len(capture.parts) = 2
  /\ capture.parts[1].height < capture.H
  /\ capture.parts[2].y > 0

\* C19: the two parts of a split capture overlap by 80 px: when neither part
\* is clamped by the page bounds, the rows covered by both (from the start of
\* part2 to the end of part1) are 80.
C19_PartsOverlapBy80 ==
  Unclamped =>
    (capture.parts[1].y + capture.parts[1].height) - capture.parts[2].y = 80

\* C20: screenshotUrl returns artifacts only when every capture step of every
\* part succeeded; when a step fails it throws and returns none, also when
\* part1 was already written, and the files written before the failure stay in
\* storage: the capturer deletes nothing.
C20_SplitFailsAsAWhole ==
  /\ [](capture.st = "returned" => Len(capture.returned) = Len(capture.parts))
  /\ [](capture.st = "threw" =>
          /\ capture.returned = << >>
          /\ capture.storage = {capture.results[i] : i \in 1..Len(capture.results)}
          /\ Len(capture.results) = capture.next - 1)
  /\ [][capture.storage \subseteq capture'.storage]_vars

C20_Part2FailedAfterPart1 ==
  /\ capture.st = "threw" /\ capture.next = 2
  /\ capture.returned = << >>
  /\ capture.storage = {"part1"}

\* C21: an artifact written at time T is in storage right after the write,
\* and, unless a due deletion of it failed, it is in storage at no time
\* later than T + TTL + one sweep interval
C21_ArtifactGoneAfterTtlAndOneSweep ==
  /\ [][cleanup'.written > cleanup.written
          => \E f \in cleanup'.files : f.name = cleanup'.written /\ f.mtime = cleanup.now]_vars
  /\ [](\A f \in cleanup.files :
          ~f.failed => cleanup.now <= f.mtime + cleanup.ttl + cleanup.interval)

\* every artifact written so far was deleted, the last by the sweep that
\* has just run
C21_DeletedAtTheLastMoment ==
  /\ cleanup.written >= 1
  /\ cleanup.sweeps >= 2
  /\ cleanup.files = {}
  /\ cleanup.now = cleanup.nextSweep - cleanup.interval
  /\ cleanup.outcome = "swept"

\* C22: a cleanup sweep keeps every file whose age (now minus last-modified
\* time) is at most the TTL, removes only files older than the TTL, removes
\* every older file whose own stat and unlink succeed whatever happened to
\* the other files, and always returns normally
C22_SweepDeletesExactlyTheExpired ==
  [][cleanup'.sweeps > cleanup.sweeps =>
       /\ \A f \in cleanup.files :
            cleanup.now - f.mtime <= cleanup.ttl => f \in cleanup'.files
       /\ \A f \in cleanup.files :
            cleanup.now - f.mtime > cleanup.ttl =>
              \/ \A g \in cleanup'.files : g.name # f.name
              \/ [f EXCEPT !.failed = TRUE] \in cleanup'.files
       /\ \A g \in cleanup'.files : \E f \in cleanup.files : f.name = g.name
       /\ cleanup'.outcome \in {"swept", "logged"}]_vars

\* of two expired files, the older one's stat or unlink failed and the sweep
\* still deleted the younger one
C22_SweptPastAFailure ==
  /\ cleanup.written = 2
  /\ cleanup.outcome = "swept"
  /\ \E f \in cleanup.files : f.name = 1 /\ f.failed
  /\ \A f \in cleanup.files : f.name # 2

\* C23: every audit route answers a missing or invalid url parameter with
\* 400, a successful audit with 200 and a failed audit with 500
C23_StatusFollowsOutcome ==
  req.st = "over" /\ req.via = "http" =>
    /\ req.urlCase # "valid" => req.http.status = 400
    /\ req.urlCase = "valid" /\ req.result.success => req.http.status = 200
    /\ req.urlCase = "valid" /\ ~req.result.success => req.http.status = 500

\* C24: a full audit without screenshot whose load succeeded, on whichever
\* attempt, and whose parse did not throw returns success with the status
\* code and final URL of that load, a load time that is not negative, the
\* response headers and load time, and no screenshot field
C24_FullAuditReportsTheLoad ==
  req.st = "over" /\ req.op = "auditWebsite" /\ ~req.shot /\ req.load.success /\ req.parseOk =>
    /\ req.result.success
    /\ req.result.data.statusCode = req.lastIn.status
    /\ req.result.data.url = req.lastIn.finalUrl
    /\ req.result.data.performance.loadTimeInMs >= 0
    /\ req.result.data.response.headers = "headers"
    /\ req.result.data.response.loadTimeInMs = req.result.data.performance.loadTimeInMs
    /\ req.result.data.screenshot = "absent"
    /\ req.result.data.screenshotError = << >>

\* the third attempt loaded a redirected page that answered 404 while its
\* DOMContentLoaded had not ended, and the audit returned it
C24_SucceededOnThirdAttempt ==
  /\ req.st = "over"
  /\ req.op = "auditWebsite"
  /\ ~req.shot
  /\ req.attempt = 2
  /\ req.result.success
  /\ req.lastIn.finalUrl = "redirected"
  /\ req.lastIn.status = 404
  /\ req.lastIn.perf.domContentLoaded < 0
  /\ ~req.lastIn.perfErr

\* C25: with no timeout option the navigation timeout is 30000 ms in a full
\* audit and 10000 ms in a quick audit; it is 5000 ms in the accessibility
\* check, which never invokes the HTML parser
C25_NavigationTimeouts ==
  /\ req.timeout # 0 /\ req.op = "auditWebsite" /\ req.opt = << >> => req.timeout = 30000
  /\ req.timeout # 0 /\ req.op = "quickAudit" /\ req.opt = << >> => req.timeout = 10000
  /\ req.timeout # 0 /\ req.op = "checkUrlAccessibility" => req.timeout = 5000
  /\ req.op = "checkUrlAccessibility" => ~req.parsed
  /\ req.lastIn.enter = "ok" /\ ~req.load.success => req.load.timeout = req.timeout

\* an accessibility check is over: its page loaded within the 5000 ms
C25_AccessibilityCheckLoaded ==
  /\ req.st = "over"
  /\ req.op = "checkUrlAccessibility"
  /\ req.result.success
  /\ req.timeout = 5000

\* C26: the message of a failed load or audit handed to the caller holds
\* none of the text of the exception behind it
C26_NoRawErrorText ==
  req.st = "over" /\ req.urlCase = "valid" /\ ~req.result.success =>
    \A i \in DOMAIN req.result.error.message : req.result.error.message[i] \notin ExceptionTexts

\* C29: a navigation that resolves without a response object makes loadPage
\* return a failed result with an error, never a success and never a throw
C29_NullResponseIsAFailure ==
  req.lastIn.enter = "ok" /\ req.lastIn.newPage /\ req.lastIn.response = "null" =>
    /\ ~req.load.success
    /\ ~req.load.threw
    /\ req.load.error.error = "PAGE_LOAD_FAILED"
    /\ req.load.error.message # << >>

\* an accessibility check ended on a navigation without a response
C29_CheckedUrlGaveNoResponse ==
  /\ req.st = "over"
  /\ req.op = "checkUrlAccessibility"
  /\ req.lastIn.enter = "ok"
  /\ req.lastIn.newPage
  /\ req.lastIn.response = "null"
  /\ ~req.result.data.accessible

\* C30: an error inside waitForDynamicContent or getPerformanceMetrics
\* never makes a failed result of a load that got a response and whose
\* content could be read; after a failed performance read every metric is 0
C30_SettleAndMetricsAreBestEffort ==
  req.lastIn.enter = "ok" /\ req.lastIn.newPage /\ req.lastIn.response = "ok"
      /\ req.lastIn.contentOk /\ (req.lastIn.settleErr \/ req.lastIn.perfErr) =>
    /\ req.load.success
    /\ req.lastIn.perfErr =>
         /\ req.load.performanceMetrics[1].domContentLoaded = 0
         /\ req.load.performanceMetrics[1].loadComplete = 0
         /\ req.load.performanceMetrics[1].firstPaint = 0
         /\ req.load.performanceMetrics[1].firstContentfulPaint = 0

\* a quick audit succeeded on a load whose settle step and performance read
\* both threw
C30_LoadedDespiteBothErrors ==
  /\ req.st = "over"
  /\ req.op = "quickAudit"
  /\ req.result.success
  /\ req.lastIn.settleErr
  /\ req.lastIn.perfErr
  /\ req.lastIn.perf.domContentLoaded # 0

\* C28: whatever page.close() does, a loadPage or screenshotUrl call that has
\* reached its finally block settles the way its try block decided: with
\* the result it built, or with the error it let pass, and with no other
C28_CloseFailureNeverPropagates ==
  [][\A c \in Calls :
       pc[c] = "closing" /\ pc'[c] \in {"retOk", "retFail", "threw"}
         => pc'[c] = Settled(result[c])]_vars

\* C27: a page opened by loadPage or screenshotUrl is the page of one run
\* only, is used by no other run, and close() has been called on it exactly
\* once when its run is over, however the run ends; it is never called twice
C27_PageOwnedAndClosedOnce ==
  /\ \A p \in PageIds :
       /\ Cardinality(pages.log[p].owners) <= 1
       /\ pages.log[p].users \subseteq pages.log[p].owners
       /\ pages.log[p].closes <= 1
       /\ \A r \in pages.log[p].owners :
            /\ pages.runs[r].page = p
            /\ pages.log[p].closes = (IF pages.runs[r].st = "done" THEN 1 ELSE 0)
  /\ \A r \in Runs :
       pages.runs[r].page # 0 => r \in pages.log[pages.runs[r].page].owners

\* a loadPage run returned, a screenshotUrl run threw out of its try block,
\* and a third run is at work on its own page: three pages, two closed
C27_TwoClosedOneInUse ==
  /\ \E r \in Runs : pages.runs[r].kind = "loadPage" /\ pages.runs[r].out = "retOk"
  /\ \E r \in Runs : /\ pages.runs[r].kind = "screenshotUrl"
                     /\ pages.runs[r].result = "threw" /\ pages.runs[r].st = "done"
  /\ \E r \in Runs : pages.runs[r].st = "finally" /\ pages.runs[r].page # 0
  /\ pages.opened = 3

Crashed(c) ==
  /\ kind[c] = "loadPage"
  /\ hasSlot[c]
  /\ page[c] = "open"
  /\ onBrowser[c] \notin alive

\* C32 as stated: a loadPage call whose browser crashed while it held a slot
\* and an open page returns a failed result, with its slot released
C32_CrashedLoadReturnsFailure ==
  [][\A c \in Calls :
       Crashed(c) /\ pc'[c] \in {"retOk", "retFail", "threw"}
         => pc'[c] = "retFail" /\ ~hasSlot'[c]]_vars

\* C32, amended: such a call neither throws nor keeps its slot; it returns
\* a failed result, unless its try block had already built the successful
\* result when the browser went, which it then returns; its try block cannot
\* succeed once the browser is gone; and a call entered while the pool is
\* not ready launches a browser
C32_CrashedLoadReturnsItsResult ==
  [][\A c \in Calls :
       /\ Crashed(c) /\ pc'[c] \in {"retOk", "retFail", "threw"}
            => /\ pc'[c] = (IF result[c] = "ok" THEN "retOk" ELSE "retFail")
               /\ ~hasSlot'[c]
               /\ currentSlots' < currentSlots \/ \E d \in Calls : ~hasSlot[d] /\ hasSlot'[d]
       /\ Crashed(c) /\ pc[c] = "navigating" /\ pc'[c] # "navigating"
            => pc'[c] = "closing" /\ result'[c] = "fail"
       /\ ~isReady /\ pc[c] \in {"idle", "backoff"} /\ pc'[c] \notin {"idle", "backoff", "done"}
            => pc'[c] = "launching"]_vars

\* the browser went while the call was navigating; the call has built its
\* failed result and is closing its page
C32_CrashedWhileNavigating ==
  \E c \in Calls : Crashed(c) /\ pc[c] = "closing" /\ result[c] = "fail" /\ browser = 0

\* Two full audits without screenshot that contend for the slots, with
\* launches, disconnects and every outcome of page, navigation and close
NextContended ==
  \/ \E c \in 1..2 : AuditStart(c, TRUE, FALSE)
  \/ \E c \in Calls : LaunchOk(c)
  \/ \E c \in Calls : LaunchFail(c)
  \/ \E b \in BrowserIds : Disconnect(b)
  \/ \E c \in Calls : CheckBrowser(c)
  \/ \E c \in Calls : NewPageOk(c)
  \/ \E c \in Calls : NewPageFail(c)
  \/ \E c \in Calls : NavOk(c)
  \/ \E c \in Calls : NavFail(c)
  \/ \E c \in Calls : CloseOk(c)
  \/ \E c \in Calls : CloseFail(c)
  \/ \E c \in Calls : AuditContinue(c, TRUE)
  \/ \E c \in Calls : BackoffDone(c)

ContendedSpec == Init /\ [][NextContended]_vars

\* C33: an audit holds no slot while it waits for one or sleeps in backoff,
\* every load attempt gives back the slot it acquired (the slot is not left
\* counted when the attempt is over), and the capture asks for its slot when
\* the load's is released
C33_AuditHoldsNoSlotAcrossWaits ==
  /\ [](\A c \in Calls : pc[c] \in {"waiting", "backoff"} => ~hasSlot[c])
  /\ [][\A c \in Calls :
          audit[c].st = "loading" /\ hasSlot[c] /\ ~hasSlot'[c] => leaked' = leaked]_vars
  /\ [][\A c \in Calls :
          audit[c].st # "capturing" /\ audit'[c].st = "capturing" => ~hasSlot[c]]_vars

\* C34: the counter stays between 0 and the capacity, calls are queued only
\* while the counter equals the capacity, and releaseSlot never runs with the
\* counter at 0 (its clamp is not exercised)
C34_CounterWithinCapacity ==
  /\ [](0 <= currentSlots /\ currentSlots <= maxConcurrentPages)
  /\ [](queue # << >> => currentSlots = maxConcurrentPages)
  /\ [][(\E c \in Holders : ~hasSlot'[c] /\ leaked' = leaked) => currentSlots >= 1]_vars

\* C35: a 'disconnected' event from a browser that is not the pool's current
\* browser does not reset the pool: a ready pool stays ready and keeps its
\* current browser.
C35_StaleDisconnectIgnored ==
  [][\A b \in BrowserIds :
       (b \in alive /\ b \notin alive' /\ b # browser /\ isReady)
         => isReady' /\ browser' = browser]_vars

\* The call awaited by the auditor run of c has settled as a failed result or
\* as a rejection, and the run takes its next step
InnerFailed(c) ==
  /\ audit[c].op # "none"
  /\ pc[c] \in {"retFail", "threw"}
  /\ pc'[c] # pc[c]

\* The auditor run of c returns in this step
AuditorReturns(c) ==
  /\ audit[c].op # "none"
  /\ pc[c] # "done" /\ pc'[c] = "done"

\* C36 as claimed: auditWebsite, quickAudit and checkUrlAccessibility never
\* throw: a run that is over has returned a success or a failure, a failure
\* carries an error, and when the call the run awaited failed or rejected the
\* run either retries (auditWebsite, while loading) or returns a failure.
C36_EveryFailureReturnsFailure ==
  [][\A c \in Calls :
       /\ AuditorReturns(c) =>
            /\ audit'[c].st \in {"success", "failed"}
            /\ audit'[c].st = "failed" => audit'[c].error # NoError
       /\ InnerFailed(c) =>
            \/ /\ audit[c].op = "auditWebsite" /\ audit[c].st = "loading"
               /\ pc'[c] = "backoff" /\ audit'[c].st = "backoff"
            \/ /\ pc'[c] = "done"
               /\ audit'[c].st = "failed"]_vars

\* C36 as amended: the three methods never throw; a failure of validation, of
\* the parse or of the last load attempt is returned as a failure carrying an
\* error, and a failed screenshot capture is returned inside a success, as
\* an empty screenshot list with screenshotError.
C36_AuditorsNeverThrow ==
  [][\A c \in Calls :
       /\ AuditorReturns(c) =>
            /\ audit'[c].st \in {"success", "failed"}
            /\ audit'[c].st = "failed" => audit'[c].error # NoError
       /\ InnerFailed(c) =>
            \/ /\ audit[c].op = "auditWebsite" /\ audit[c].st = "loading"
               /\ pc'[c] = "backoff" /\ audit'[c].st = "backoff"
            \/ /\ audit[c].st = "loading"
               /\ pc'[c] = "done"
               /\ audit'[c].st = "failed"
            \/ /\ audit[c].st = "capturing"
               /\ pc'[c] = "done"
               /\ audit'[c].st = "success" /\ audit'[c].shots = "error"]_vars

C36_AccessibilityCheckCaughtAThrow ==
  /\ audit[1].op = "checkUrlAccessibility" /\ audit[1].st = "failed"
  /\ audit[1].error = accessCatchError /\ pc[1] = "done"
  /\ browser = 0

\* The auditor run of c invokes loadPage in this step
LoadAttempted(c) ==
  /\ pc[c] \in {"idle", "backoff"}
  /\ audit'[c].st = "loading"

\* C37: only the full audit retries. The load counter of a run goes up by one
\* with each loadPage it invokes; a quickAudit or checkUrlAccessibility whose
\* URL passed validation has made exactly one load attempt when it returns,
\* and when that attempt fails or rejects it returns a failure in its next
\* step (a failed result's error as it is); an auditWebsite whose URL passed
\* validation has made between 1 and 3 load attempts when it returns.
C37_OnlyTheFullAuditRetries ==
  [][\A c \in Calls :
       /\ IF LoadAttempted(c)
            THEN audit'[c].loads = audit[c].loads + 1 /\ kind'[c] = "loadPage"
            ELSE audit'[c].loads = audit[c].loads
       /\ (AuditorReturns(c) /\ audit[c].op \in {"quickAudit", "checkUrlAccessibility"})
            => audit'[c].loads = 1
       /\ (InnerFailed(c) /\ audit[c].op \in {"quickAudit", "checkUrlAccessibility"})
            => /\ pc'[c] = "done" /\ audit'[c].st = "failed"
               /\ pc[c] = "retFail" => audit'[c].error = quickLoadError
       /\ (AuditorReturns(c) /\ audit[c].op = "auditWebsite")
            => audit'[c].loads \in 1..(LoadMaxRetries + 1)]_vars

C37_QuickAuditFailedAfterOneLoad ==
  /\ audit[1].op = "quickAudit" /\ audit[1].st = "failed"
  /\ audit[1].error = quickLoadError /\ audit[1].loads = 1
  /\ pc[1] = "done"

\* The rows of the page inside a captured clip
RowsOf(clip) == {r \in 0..MaxPageHeight : clip.y <= r /\ r < clip.y + clip.height}

\* C38: for every H > M >= 0 the two clips of a split capture cover the whole
\* page with no gap: the first starts at row 0, the second ends exactly at row
\* H, the second starts no later than the first ends, and every row of the
\* page is inside one of them.
C38_PartsCoverThePage ==
  (capture.H > capture.M /\ capture.M >= 0 /\ Len(capture.clips) = 2) =>
    LET c1 == capture.clips[1]
        c2 == capture.clips[2]
    IN /\ c1.y = 0
       /\ c2.y + c2.height = capture.H
       /\ c2.y <= c1.y + c1.height
       /\ \A r \in 0..(capture.H - 1) : r \in RowsOf(c1) \cup RowsOf(c2)

C38_ClampedTopMeetsBottom ==
  /\ capture.st = "returned" /\ capture.H = 161 /\ capture.M = 1
  /\ capture.clips = << [y |-> 0, height |-> 161], [y |-> 1, height |-> 160] >>

====
